---- MODULE Spec2Model ----
(***************************************************************************)
(* Model of the AWS instance-identity-document node attestor               *)
(* (src/server/iid_attestor.go): the IIDAttestorPlugin state, its Attest   *)
(* and Configure handlers run by concurrent callers, and the pure helpers  *)
(* they use (path.Join, url.URL.String, the attach-time disparity).        *)
(*                                                                         *)
(* Strings are sequences of characters.  The literals of the source        *)
(* ("spire", "agent", "iid_attestor", "spiffe") are single atoms, which    *)
(* no input string contains.                                               *)
(***************************************************************************)
EXTENDS Integers, Sequences, FiniteSets, TLC

\* ------------------------------------------------------------------ bounds
\* Number of goroutines of the plugin host that call into the plugin.
NumCallers == 2
\* Longest NetworkInterfaces list the provider returns in SpecProvenance.
MaxInterfaces == 2
\* Longest BlockDeviceMappings list the provider returns in SpecProvenance.
MaxMappings == 2

\* --------------------------------------------------------------- constants
maxSecondsBetweenDeviceAttachments == 60
\* time.Time values are counted in milliseconds; Unix() drops the fraction.
MillisPerSecond == 1000

pluginName == <<"iid_attestor">>

\* awsCaCertPEM is a compile-time constant: pem.Decode and
\* x509.ParseCertificate succeed on it and its key is an RSA key.
awsCaCertParses == TRUE
awsCaCertKeyIsRSA == TRUE

\* ------------------------------------------------------------ path.Join
Slash == "/"
Dot == "."
EmptyString == << >>

RECURSIVE JoinWith(_, _)
\* strings.Join(elems, sep) for a one-character separator.
JoinWith(elems, sep) ==
    IF Len(elems) = 0 THEN EmptyString
    ELSE IF Len(elems) = 1 THEN elems[1]
    ELSE elems[1] \o <<sep>> \o JoinWith(Tail(elems), sep)

RECURSIVE SplitAcc(_, _, _)
SplitAcc(s, cur, out) ==
    IF Len(s) = 0 THEN Append(out, cur)
    ELSE IF Head(s) = Slash THEN SplitAcc(Tail(s), EmptyString, Append(out, cur))
    ELSE SplitAcc(Tail(s), Append(cur, Head(s)), out)

\* The "/"-separated segments of a string ("" has the one segment "").
SplitSlash(s) == SplitAcc(s, EmptyString, << >>)

DotDot == <<Dot, Dot>>

RECURSIVE CleanAcc(_, _)
\* path.Clean on the segments of a path that is not rooted: empty and "."
\* segments are dropped, ".." removes the segment before it when there is
\* one that is not itself "..", and is kept otherwise.
CleanAcc(segs, out) ==
    IF Len(segs) = 0 THEN out
    ELSE LET seg == Head(segs)
             rest == Tail(segs)
         IN  IF seg = EmptyString \/ seg = <<Dot>> THEN CleanAcc(rest, out)
             ELSE IF seg = DotDot
                  THEN IF Len(out) > 0 /\ out[Len(out)] # DotDot
                       THEN CleanAcc(rest, SubSeq(out, 1, Len(out) - 1))
                       ELSE CleanAcc(rest, Append(out, seg))
                  ELSE CleanAcc(rest, Append(out, seg))

\* path.Clean(p) for p not starting with "/": "." when nothing is left.
PathClean(p) ==
    LET kept == CleanAcc(SplitSlash(p), << >>)
    IN  IF Len(kept) = 0 THEN <<Dot>> ELSE JoinWith(kept, Slash)

\* path.Join(elems...): empty elements are ignored, the rest joined with "/"
\* and cleaned; "" when every element is empty.
PathJoin(elems) ==
    LET nonEmpty == SelectSeq(elems, LAMBDA e: e # EmptyString)
    IN  IF Len(nonEmpty) = 0 THEN EmptyString
        ELSE PathClean(JoinWith(nonEmpty, Slash))

\* ------------------------------------------------------- url.URL.String
RECURSIVE EscapeHost(_)
\* escape(host, encodeHost): "/" is percent-encoded, letters and "." are not.
EscapeHost(h) ==
    IF Len(h) = 0 THEN EmptyString
    ELSE (IF Head(h) = Slash THEN <<"%2F">> ELSE <<Head(h)>>) \o EscapeHost(Tail(h))

\* (*url.URL).String() for a URL with Scheme, Host and Path only; the path
\* characters of the model ("/", ".", letters) are not escaped.
URLString(scheme, host, urlPath) ==
    scheme \o <<":">> \o <<Slash, Slash>> \o EscapeHost(host)
      \o (IF urlPath # EmptyString /\ Head(urlPath) # Slash /\ host # EmptyString
          THEN <<Slash>> ELSE EmptyString)
      \o urlPath

\* An identity whose path leaves the account out.
spiffeIDWithoutAccount(td, awsAccountId, awsInstanceId) ==
    URLString(<<"spiffe">>, td,
              PathJoin(<< <<"spire">>, <<"agent">>, pluginName, awsInstanceId >>))

\* p.spiffeID(awsAccountId, awsInstanceId).String() with p.trustDomain = td.
spiffeID(td, awsAccountId, awsInstanceId) ==
    URLString(<<"spiffe">>, td,
              PathJoin(<< <<"spire">>, <<"agent">>, pluginName,
                          awsAccountId, awsInstanceId >>))

\* ------------------------------------------------------------ input data
A == <<"a">>
B == <<"b">>
\* A nil *rsa.PublicKey, and the key x509.ParseCertificate reads from
\* awsCaCertPEM (the same key value at every Configure call).
Nil == "nil"
awsCaCertPEMPublicKey == "public key of awsCaCertPEM"

\* The raw text of an instance identity document: either text that
\* json.Unmarshal rejects, or the JSON of the three claims.
RawDoc(acct, inst, reg) ==
    [json |-> TRUE, accountId |-> acct, instanceId |-> inst, region |-> reg]
NotJsonDoc ==
    [json |-> FALSE, accountId |-> EmptyString, instanceId |-> EmptyString,
     region |-> EmptyString]

\* json.Unmarshal([]byte(attestedData.Document), &doc)
UnmarshalDoc(raw) ==
    IF raw.json
    THEN [err |-> FALSE,
          doc |-> [AccountId |-> raw.accountId, InstanceId |-> raw.instanceId,
                   Region |-> raw.region]]
    ELSE [err |-> TRUE,
          doc |-> [AccountId |-> EmptyString, InstanceId |-> EmptyString,
                   Region |-> EmptyString]]

\* The signature string of the payload: text that is not base64, or the
\* base64 of a PKCS#1 v1.5 signature made by signer `by` over document `of`.
RawSig(isB64, by, of) == [b64 |-> isB64, by |-> by, of |-> of]

\* Mutant of DecodeSignature: the decoding error is dropped.
DecodeSignatureUnchecked(sig) == [err |-> FALSE, by |-> sig.by, of |-> sig.of]

\* base64.StdEncoding.DecodeString(attestedData.Signature)
DecodeSignature(sig) == [err |-> ~sig.b64, by |-> sig.by, of |-> sig.of]

\* sha256.Sum256: taken to be collision free, so the digest names its input.
Sum256(raw) == <<"sha256", raw>>

\* The payload req.AttestedData.Data: text json.Unmarshal rejects, or the
\* JSON of {document, signature}.
Payload(raw, sig) == [json |-> TRUE, document |-> raw, signature |-> sig]
NotJsonPayload ==
    [json |-> FALSE, document |-> NotJsonDoc,
     signature |-> RawSig(FALSE, "nobody", NotJsonDoc)]

\* json.Unmarshal(req.AttestedData.Data, &attestedData)
UnmarshalPayload(data) ==
    [err |-> ~data.json, Document |-> data.document, Signature |-> data.signature]

\* Mutant of VerifyPKCS1v15: the digest is not compared, so AWS's signature
\* over any document passes.
VerifyIgnoringDigest(pub, hash, sig) ==
    pub = awsCaCertPEMPublicKey /\ sig.by = "aws"

\* Mutant of VerifyPKCS1v15: whose key made the signature is not checked.
VerifyAnySigner(pub, hash, sig) ==
    /\ pub = awsCaCertPEMPublicKey
    /\ hash = Sum256(sig.of)

\* rsa.VerifyPKCS1v15(pub, crypto.SHA256, hash, sig) for a non-nil pub: the
\* signature verifies iff the holder of pub's private key (AWS, for the key
\* of awsCaCertPEM) made it over the document that was hashed.
VerifyPKCS1v15(pub, hash, sig) ==
    pub = awsCaCertPEMPublicKey /\ sig.by = "aws" /\ hash = Sum256(sig.of)

\* --------------------------------------------------- provider descriptors
NetworkInterface(deviceIndex, attachTime) ==
    [DeviceIndex |-> deviceIndex, AttachTime |-> attachTime]
BlockDeviceMapping(deviceName, attachTime) ==
    [DeviceName |-> deviceName, AttachTime |-> attachTime]
Instance(ifaces, mappings, root) ==
    [NetworkInterfaces |-> ifaces, BlockDeviceMappings |-> mappings,
     RootDeviceName |-> root]
\* What ec2Client.DescribeInstances returns: an error, or the reservations,
\* each the list of its instances.
QueryError == [err |-> TRUE, Reservations |-> << >>]
QueryResult(reservations) == [err |-> FALSE, Reservations |-> reservations]

\* ------------------------------------------------- attach-time disparity
\* time.Time.Unix(): whole seconds, the fraction dropped.
Unix(t) == t \div MillisPerSecond

\* math.Abs on the float64 of an int64 difference, converted back to int64
\* (exact for the magnitudes of the model).
Abs(x) == IF x < 0 THEN -x ELSE x

\* Mutant of attachTimeDisparitySeconds: the difference of the two times is
\* truncated to seconds, instead of each time.
disparityOfDifferenceSeconds(ifaceZeroAttachTime, rootDeviceAttachTime) ==
    Abs(ifaceZeroAttachTime - rootDeviceAttachTime) \div MillisPerSecond

\* int64(math.Abs(float64(a.Unix() - b.Unix()))) (line 166)
attachTimeDisparitySeconds(ifaceZeroAttachTime, rootDeviceAttachTime) ==
    Abs(Unix(ifaceZeroAttachTime) - Unix(rootDeviceAttachTime))

\* Mutant of DisparityTooLarge: the comparison is >= instead of >.
DisparityAtLeastMax(ifaceZeroAttachTime, rootDeviceAttachTime) ==
    attachTimeDisparitySeconds(ifaceZeroAttachTime, rootDeviceAttachTime)
        >= maxSecondsBetweenDeviceAttachments

DisparityTooLarge(ifaceZeroAttachTime, rootDeviceAttachTime) ==
    attachTimeDisparitySeconds(ifaceZeroAttachTime, rootDeviceAttachTime)
        > maxSecondsBetweenDeviceAttachments

\* Mutant of rootDeviceIndex: only the first mapping is compared.
rootDeviceIndexFirstOnly(instance) ==
    IF /\ Len(instance.BlockDeviceMappings) >= 1
       /\ instance.BlockDeviceMappings[1].DeviceName = instance.RootDeviceName
    THEN 1 ELSE -1

\* The loop over instance.BlockDeviceMappings: the first index whose
\* DeviceName is RootDeviceName, -1 when there is none.
rootDeviceIndex(instance) ==
    LET hits == {i \in 1..Len(instance.BlockDeviceMappings) :
                   instance.BlockDeviceMappings[i].DeviceName = instance.RootDeviceName}
    IN  IF hits = {} THEN -1
        ELSE CHOOSE i \in hits : \A j \in hits : i <= j

\* Mutant of TopologyUnexpected: every interface must have DeviceIndex 0.
TopologyUnexpectedAnywhere(instance) ==
    \E i \in DOMAIN instance.NetworkInterfaces :
        instance.NetworkInterfaces[i].DeviceIndex # 0

\* ifaceZeroDeviceIndex != 0 (lines 140-142)
TopologyUnexpected(instance) == instance.NetworkInterfaces[1].DeviceIndex # 0

\* ------------------------------------------------------------ step names
\* The step each attestationStepError call names.
StepUnmarshalData == "unmarshaling the attestation data"
StepUnmarshalIID == "unmarshaling the IID"
StepValidateIID == "validating the IID"
StepBase64 == "base64 decoding the IID signature"
StepVerify == "verifying the cryptographic signature"
StepQuery == "querying AWS via describe-instances"
StepDeviceIndex == "verifying the EC2 instance's NetworkInterface[0].DeviceIndex is 0"
StepRootDevice == "locating the root device block mapping"
StepDisparity == "checking the disparity device attach times"
NoError == "nil"
IndexOutOfRange == "panic: index out of range"
NilDereference == "panic: nil pointer dereference"

\* Lines 133-172 of Attest on the result of DescribeInstances: the step that
\* denies, the panic raised, or NoError when every check passes.
CheckProvenance(result) ==
    IF result.err THEN StepQuery
    ELSE IF Len(result.Reservations) = 0 THEN IndexOutOfRange
    ELSE IF Len(result.Reservations[1]) = 0 THEN IndexOutOfRange
    ELSE LET instance == result.Reservations[1][1]
         IN  IF Len(instance.NetworkInterfaces) = 0 THEN IndexOutOfRange
             ELSE IF TopologyUnexpected(instance) THEN StepDeviceIndex
             ELSE IF rootDeviceIndex(instance) = -1 THEN StepRootDevice
             ELSE IF DisparityTooLarge(
                        instance.NetworkInterfaces[1].AttachTime,
                        instance.BlockDeviceMappings[rootDeviceIndex(instance)].AttachTime)
                  THEN StepDisparity
             ELSE NoError

IsPanic(e) == e \in {IndexOutOfRange, NilDereference}

\* ------------------------------------------------------------ requests
\* The raw HCL text of req.Configuration: text hcl.Parse rejects, a tree
\* hcl.DecodeObject rejects (trust_domain of the wrong type), or a tree that
\* decodes to TrustDomain (the empty string when the key is absent).
Hcl(parses, decodes, td) == [parses |-> parses, decodes |-> decodes, trust_domain |-> td]
HclSyntaxError == Hcl(FALSE, FALSE, EmptyString)
HclTypeError == Hcl(TRUE, FALSE, EmptyString)

ErrParseConfig == "Error parsing AWS IID Attestor configuration"
ErrDecodeConfig == "Error decoding AWS IID Attestor configuration"
ErrReadCert == "Error reading the AWS CA Certificate in the AWS IID Attestor"
ErrExtractKey == "Error extracting the AWS CA Certificate's public key in the AWS IID Attestor"

\* Lines 190-214 of Configure: the error it returns before touching the
\* plugin, or NoError.
ConfigureError(configuration) ==
    IF ~configuration.parses THEN ErrParseConfig
    ELSE IF ~configuration.decodes THEN ErrDecodeConfig
    ELSE IF ~awsCaCertParses THEN ErrReadCert
    ELSE IF ~awsCaCertKeyIsRSA THEN ErrExtractKey
    ELSE NoError

AttestRequest(data, attestedBefore) ==
    [op |-> "Attest", data |-> data, attestedBefore |-> attestedBefore,
     configuration |-> HclSyntaxError]
ConfigureRequest(configuration) ==
    [op |-> "Configure", data |-> NotJsonPayload, attestedBefore |-> FALSE,
     configuration |-> configuration]
NoRequest ==
    [op |-> "none", data |-> NotJsonPayload, attestedBefore |-> FALSE,
     configuration |-> HclSyntaxError]

\* Mutant of ReplayDetected: the flag is not looked at.
ReplayNeverDetected(request) == FALSE

\* if req.AttestedBefore (line 96)
ReplayDetected(request) == request.attestedBefore

\* Mutant of DecodeError: the replay flag is tested before anything is
\* decoded.
DecodeErrorReplayFirst(request) ==
    IF ReplayDetected(request) THEN StepValidateIID
    ELSE IF UnmarshalPayload(request.data).err THEN StepUnmarshalData
    ELSE IF UnmarshalDoc(UnmarshalPayload(request.data).Document).err THEN StepUnmarshalIID
    ELSE IF DecodeSignature(UnmarshalPayload(request.data).Signature).err THEN StepBase64
    ELSE NoError

\* Lines 82-111 of Attest, which touch no shared state: the step that
\* denies, or NoError when the call goes on to take the lock.
DecodeError(request) ==
    IF UnmarshalPayload(request.data).err THEN StepUnmarshalData
    ELSE IF UnmarshalDoc(UnmarshalPayload(request.data).Document).err THEN StepUnmarshalIID
    ELSE IF ReplayDetected(request) THEN StepValidateIID
    ELSE IF DecodeSignature(UnmarshalPayload(request.data).Signature).err THEN StepBase64
    ELSE NoError

\* What the steps of lines 82-111 leave in the call's log.
DecodeTrace(request) ==
    IF UnmarshalPayload(request.data).err THEN <<"unmarshalData">>
    ELSE IF UnmarshalDoc(UnmarshalPayload(request.data).Document).err
         THEN <<"unmarshalData", "unmarshalIID">>
    ELSE IF ReplayDetected(request)
         THEN <<"unmarshalData", "unmarshalIID", "replay">>
    ELSE <<"unmarshalData", "unmarshalIID", "replay", "sha256", "base64">>

\* Mutant of attestationStepError: no error is built.
attestationStepErrorNil(step) == NoError

\* attestationStepError(step, cause): a non-nil error whose message names
\* the step (the cause is not what the format prints).
attestationStepError(step) == step

Denied(step) == [valid |-> FALSE, id |-> EmptyString, err |-> attestationStepError(step)]
Attested(id) == [valid |-> TRUE, id |-> id, err |-> NoError]
ConfigureResponse(err) == [valid |-> FALSE, id |-> EmptyString, err |-> err]
NoResponse == [valid |-> FALSE, id |-> EmptyString, err |-> "none"]

NoQuery == [issued |-> FALSE, Region |-> EmptyString, InstanceIds |-> << >>]

\* Mutant of DescribeInstancesInput: the client is built without the region
\* of the document.
DescribeInstancesInputNoRegion(doc) ==
    [issued |-> TRUE, Region |-> EmptyString, InstanceIds |-> <<doc.InstanceId>>]

\* Lines 122-130: the client's region and the query's instance ids, both
\* taken from the document of the call.
DescribeInstancesInput(doc) ==
    [issued |-> TRUE, Region |-> doc.Region, InstanceIds |-> <<doc.InstanceId>>]

NoResult == [err |-> FALSE, Reservations |-> << >>]
NoLocals ==
    [pub |-> Nil, query |-> NoQuery, result |-> NoResult,
     trustDomain |-> EmptyString, awsCaCertPublicKey |-> Nil]

\* ------------------------------------------------------------------ state
VARIABLES
    trustDomain,          \* p.trustDomain
    awsCaCertPublicKey,   \* p.awsCaCertPublicKey: Nil, or the key object Configure stored
    mtx,                  \* p.mtx: the callers holding it (none when unlocked)
    anchorIntact,         \* history: each Attest call has so far read one Configure's anchor
    crashed,              \* a handler panicked: the plugin process is gone
    pc,                   \* each caller's position in its handler
    req,                  \* each caller's request
    loc,                  \* each caller's local variables
    resp,                 \* each caller's response, once returned
    trace                 \* history: the steps each call has executed

vars == <<trustDomain, awsCaCertPublicKey, mtx, anchorIntact, crashed,
          pc, req, loc, resp, trace>>

plugin == <<trustDomain, awsCaCertPublicKey>>

Callers == 1..NumCallers

\* sync.Mutex: unlocked, or locked by the caller whose Lock() returned.
Unlocked == {}
LockedBy(c) == {c}

\* New() / main(): a plugin with a fresh mutex and zero-valued fields.
Init ==
    /\ trustDomain = EmptyString
    /\ awsCaCertPublicKey = Nil
    /\ mtx = Unlocked
    /\ anchorIntact = [c \in Callers |-> TRUE]
    /\ crashed = FALSE
    /\ pc = [c \in Callers |-> "idle"]
    /\ req = [c \in Callers |-> NoRequest]
    /\ loc = [c \in Callers |-> NoLocals]
    /\ resp = [c \in Callers |-> NoResponse]
    /\ trace = [c \in Callers |-> << >>]

\* History of the anchor each Attest call sees.  A Configure call between
\* its two assignments has written its trust domain but not yet its key.
AnchorHalfWritten == \E d \in Callers : pc[d] = "cfgPublicKey"

\* An assignment to the anchor reaches every Attest call that has read the
\* public key and has yet to read the trust domain.
AfterAnchorWrite ==
    [d \in Callers |->
        IF pc[d] \in {"describe", "await", "respond"} THEN FALSE ELSE anchorIntact[d]]

\* Mutant of MutexFree: Lock() returns at once, whoever holds the mutex.
MutexIgnored == TRUE

\* p.mtx.Lock() returns only when nobody holds the mutex.
MutexFree == mtx = Unlocked

\* Mutant of HeldAfterVerify: the mutex is released as soon as the
\* signature has verified, before the provider is queried.
ReleasedAfterVerify(c) == Unlocked

\* The unlock of Attest is deferred (line 114): after a signature that
\* verifies, the caller still holds the mutex.
HeldAfterVerify(c) == LockedBy(c)

\* A handler returns `response`; its deferred p.mtx.Unlock() runs if it had
\* taken the lock.
Return(c, response, steps) ==
    /\ pc' = [pc EXCEPT ![c] = "done"]
    /\ resp' = [resp EXCEPT ![c] = response]
    /\ trace' = [trace EXCEPT ![c] = trace[c] \o steps]

\* A handler panics: deferred calls run and the process exits.
Panic(c, steps) ==
    /\ pc' = [pc EXCEPT ![c] = "panicked"]
    /\ crashed' = TRUE
    /\ trace' = [trace EXCEPT ![c] = trace[c] \o steps]
    /\ UNCHANGED resp

\* ----------------------------------------------------------------- Attest
\* Lines 80-111: the host calls Attest(request); the payload and the
\* document are decoded, the replay flag tested, the document hashed and the
\* signature base64-decoded.
AttestBegin(c, requests) ==
    /\ ~crashed
    /\ pc[c] = "idle"
    /\ \E request \in requests :
        /\ req' = [req EXCEPT ![c] = request]
        /\ IF DecodeError(request) # NoError
           THEN Return(c, Denied(DecodeError(request)), DecodeTrace(request))
           ELSE /\ pc' = [pc EXCEPT ![c] = "lock"]
                /\ trace' = [trace EXCEPT ![c] = DecodeTrace(request)]
                /\ UNCHANGED resp
    /\ UNCHANGED <<plugin, anchorIntact, mtx, crashed, loc>>

\* Line 113: p.mtx.Lock(), and line 114 defers the unlock.
AttestLock(c) ==
    /\ ~crashed
    /\ pc[c] = "lock"
    /\ MutexFree
    /\ mtx' = LockedBy(c)
    /\ pc' = [pc EXCEPT ![c] = "verify"]
    /\ trace' = [trace EXCEPT ![c] = Append(trace[c], "lock")]
    /\ UNCHANGED <<plugin, anchorIntact, crashed, req, loc, resp>>

\* Mutant of AttestVerify: a nil key skips the verification instead of
\* being dereferenced.
AttestVerifySkipsNilKey(c) ==
    /\ ~crashed
    /\ pc[c] = "verify"
    /\ LET attestedData == UnmarshalPayload(req[c].data)
           docHash == Sum256(attestedData.Document)
           sigBytes == DecodeSignature(attestedData.Signature)
       IN  /\ loc' = [loc EXCEPT ![c].pub = awsCaCertPublicKey]
           /\ anchorIntact' = [anchorIntact EXCEPT ![c] = ~AnchorHalfWritten]
           /\ IF /\ awsCaCertPublicKey # Nil
                 /\ ~VerifyPKCS1v15(awsCaCertPublicKey, docHash, sigBytes)
              THEN /\ Return(c, Denied(StepVerify), <<"verify", "unlock">>)
                   /\ mtx' = Unlocked
                   /\ UNCHANGED crashed
              ELSE /\ pc' = [pc EXCEPT ![c] = "describe"]
                   /\ trace' = [trace EXCEPT ![c] = Append(trace[c], "verify")]
                   /\ mtx' = HeldAfterVerify(c)
                   /\ UNCHANGED <<crashed, resp>>
    /\ UNCHANGED <<plugin, req>>

\* Lines 116-120: rsa.VerifyPKCS1v15 with p.awsCaCertPublicKey, which
\* dereferences the key (a nil key panics).
AttestVerify(c) ==
    /\ ~crashed
    /\ pc[c] = "verify"
    /\ LET attestedData == UnmarshalPayload(req[c].data)
           docHash == Sum256(attestedData.Document)
           sigBytes == DecodeSignature(attestedData.Signature)
       IN  /\ loc' = [loc EXCEPT ![c].pub = awsCaCertPublicKey]
           /\ anchorIntact' = [anchorIntact EXCEPT ![c] = ~AnchorHalfWritten]
           /\ IF awsCaCertPublicKey = Nil
              THEN /\ Panic(c, <<"verify", "unlock">>)
                   /\ mtx' = Unlocked
              ELSE IF ~VerifyPKCS1v15(awsCaCertPublicKey, docHash, sigBytes)
              THEN /\ Return(c, Denied(StepVerify), <<"verify", "unlock">>)
                   /\ mtx' = Unlocked
                   /\ UNCHANGED crashed
              ELSE /\ pc' = [pc EXCEPT ![c] = "describe"]
                   /\ trace' = [trace EXCEPT ![c] = Append(trace[c], "verify")]
                   /\ mtx' = HeldAfterVerify(c)
                   /\ UNCHANGED <<crashed, resp>>
    /\ UNCHANGED <<plugin, req>>

\* Lines 122-132: an EC2 client for doc.Region sends DescribeInstances for
\* doc.InstanceId; the call blocks until the provider answers.
AttestDescribe(c) ==
    /\ ~crashed
    /\ pc[c] = "describe"
    /\ LET doc == UnmarshalDoc(UnmarshalPayload(req[c].data).Document).doc
       IN  loc' = [loc EXCEPT ![c].query = DescribeInstancesInput(doc)]
    /\ pc' = [pc EXCEPT ![c] = "await"]
    /\ trace' = [trace EXCEPT ![c] = Append(trace[c], "describe")]
    /\ UNCHANGED <<plugin, anchorIntact, mtx, crashed, req, resp>>

\* Lines 132-172: the provider answers with `result`; the instance is taken
\* from it and the topology, root device and disparity checks run.
AttestDescribeReturn(c, results) ==
    /\ ~crashed
    /\ pc[c] = "await"
    /\ \E result \in results :
        /\ loc' = [loc EXCEPT ![c].result = result]
        /\ IF IsPanic(CheckProvenance(result))
           THEN /\ Panic(c, <<"provenance", "unlock">>)
                /\ mtx' = Unlocked
           ELSE IF CheckProvenance(result) # NoError
           THEN /\ Return(c, Denied(CheckProvenance(result)), <<"provenance", "unlock">>)
                /\ mtx' = Unlocked
                /\ UNCHANGED crashed
           ELSE /\ pc' = [pc EXCEPT ![c] = "respond"]
                /\ trace' = [trace EXCEPT ![c] = Append(trace[c], "provenance")]
                /\ UNCHANGED <<mtx, crashed, resp>>
    /\ UNCHANGED <<plugin, anchorIntact, req>>

\* Lines 174-179: the identity is built from p.trustDomain and the claims,
\* and the call returns it.
AttestRespond(c) ==
    /\ ~crashed
    /\ pc[c] = "respond"
    /\ LET doc == UnmarshalDoc(UnmarshalPayload(req[c].data).Document).doc
       IN  Return(c, Attested(spiffeID(trustDomain, doc.AccountId, doc.InstanceId)),
                  <<"spiffeID", "unlock">>)
    /\ loc' = [loc EXCEPT ![c].trustDomain = trustDomain]
    /\ mtx' = Unlocked
    /\ UNCHANGED <<plugin, anchorIntact, crashed, req>>

\* -------------------------------------------------------------- Configure
\* Mutant of ConfigureBegin: the trust domain is assigned as soon as the
\* HCL has parsed, before it is decoded and before the lock is taken.
ConfigureBeginAssignsEarly(c, configurations) ==
    /\ ~crashed
    /\ pc[c] = "idle"
    /\ \E configuration \in configurations :
        /\ req' = [req EXCEPT ![c] = ConfigureRequest(configuration)]
        /\ trustDomain' = IF configuration.parses THEN configuration.trust_domain
                                                 ELSE trustDomain
        /\ IF ConfigureError(configuration) # NoError
           THEN /\ Return(c, ConfigureResponse(ConfigureError(configuration)), <<"parse">>)
                /\ UNCHANGED loc
           ELSE /\ loc' = [loc EXCEPT ![c].awsCaCertPublicKey = awsCaCertPEMPublicKey]
                /\ pc' = [pc EXCEPT ![c] = "cfgLock"]
                /\ trace' = [trace EXCEPT ![c] = <<"parse">>]
                /\ UNCHANGED resp
    /\ UNCHANGED <<awsCaCertPublicKey, anchorIntact, mtx, crashed>>

\* Lines 186-214: the host calls Configure(request); the HCL is parsed and
\* decoded, the certificate parsed (which allocates its public key) and the
\* key's type checked.  Every error returns before the lock is taken.
ConfigureBegin(c, configurations) ==
    /\ ~crashed
    /\ pc[c] = "idle"
    /\ \E configuration \in configurations :
        /\ req' = [req EXCEPT ![c] = ConfigureRequest(configuration)]
        /\ IF ConfigureError(configuration) # NoError
           THEN /\ Return(c, ConfigureResponse(ConfigureError(configuration)), <<"parse">>)
                /\ UNCHANGED loc
           ELSE /\ loc' = [loc EXCEPT ![c].awsCaCertPublicKey = awsCaCertPEMPublicKey]
                /\ pc' = [pc EXCEPT ![c] = "cfgLock"]
                /\ trace' = [trace EXCEPT ![c] = <<"parse">>]
                /\ UNCHANGED resp
    /\ UNCHANGED <<plugin, anchorIntact, mtx, crashed>>

\* Line 216: p.mtx.Lock(), and line 217 defers the unlock.
ConfigureLock(c) ==
    /\ ~crashed
    /\ pc[c] = "cfgLock"
    /\ MutexFree
    /\ mtx' = LockedBy(c)
    /\ pc' = [pc EXCEPT ![c] = "cfgTrustDomain"]
    /\ trace' = [trace EXCEPT ![c] = Append(trace[c], "lock")]
    /\ UNCHANGED <<plugin, anchorIntact, crashed, req, loc, resp>>

\* Mutant of ConfigureSetTrustDomain: a trust domain already set is kept.
ConfigureSetTrustDomainOnce(c) ==
    /\ ~crashed
    /\ pc[c] = "cfgTrustDomain"
    /\ trustDomain' = IF trustDomain = EmptyString
                      THEN req[c].configuration.trust_domain
                      ELSE trustDomain
    /\ anchorIntact' = AfterAnchorWrite
    /\ pc' = [pc EXCEPT ![c] = "cfgPublicKey"]
    /\ trace' = [trace EXCEPT ![c] = Append(trace[c], "setTrustDomain")]
    /\ UNCHANGED <<awsCaCertPublicKey, mtx, crashed, req, loc, resp>>

\* Line 219: p.trustDomain = config.TrustDomain
ConfigureSetTrustDomain(c) ==
    /\ ~crashed
    /\ pc[c] = "cfgTrustDomain"
    /\ trustDomain' = req[c].configuration.trust_domain
    /\ anchorIntact' = AfterAnchorWrite
    /\ pc' = [pc EXCEPT ![c] = "cfgPublicKey"]
    /\ trace' = [trace EXCEPT ![c] = Append(trace[c], "setTrustDomain")]
    /\ UNCHANGED <<awsCaCertPublicKey, mtx, crashed, req, loc, resp>>

\* Lines 220-222: p.awsCaCertPublicKey = awsCaCertPublicKey, and the call
\* returns without error.
ConfigureSetPublicKey(c) ==
    /\ ~crashed
    /\ pc[c] = "cfgPublicKey"
    /\ awsCaCertPublicKey' = loc[c].awsCaCertPublicKey
    /\ anchorIntact' = AfterAnchorWrite
    /\ Return(c, ConfigureResponse(NoError), <<"setPublicKey", "unlock">>)
    /\ mtx' = Unlocked
    /\ UNCHANGED <<trustDomain, crashed, req, loc>>

\* The host hands the response to its client and the goroutine is free for
\* the next request.
Finish(c) ==
    /\ ~crashed
    /\ pc[c] = "done"
    /\ pc' = [pc EXCEPT ![c] = "idle"]
    /\ req' = [req EXCEPT ![c] = NoRequest]
    /\ loc' = [loc EXCEPT ![c] = NoLocals]
    /\ resp' = [resp EXCEPT ![c] = NoResponse]
    /\ trace' = [trace EXCEPT ![c] = << >>]
    /\ anchorIntact' = [anchorIntact EXCEPT ![c] = TRUE]
    /\ UNCHANGED <<plugin, mtx, crashed>>

\* ------------------------------------------------- inputs of the handlers
AttachTimes == {0, 900, 60000, 61000}
DeviceNames == {A, B}

DocumentA == RawDoc(A, A, A)
DocumentB == RawDoc(B, B, B)

\* The payloads the concurrent specification draws from: text that is not
\* JSON, a document that is not JSON, and documents with a signature that is
\* not base64, is AWS's over that document, is somebody else's, or is AWS's
\* over another document.
Payloads ==
    {NotJsonPayload,
     Payload(NotJsonDoc, RawSig(TRUE, "aws", NotJsonDoc)),
     Payload(DocumentA, RawSig(FALSE, "aws", DocumentA)),
     Payload(DocumentA, RawSig(TRUE, "aws", DocumentA)),
     Payload(DocumentA, RawSig(TRUE, "mallory", DocumentA)),
     Payload(DocumentA, RawSig(TRUE, "aws", DocumentB)),
     Payload(DocumentB, RawSig(TRUE, "aws", DocumentB))}

AttestRequests == {AttestRequest(data, before) : data \in Payloads, before \in BOOLEAN}

Configurations ==
    {HclSyntaxError, HclTypeError, Hcl(TRUE, TRUE, EmptyString), Hcl(TRUE, TRUE, A),
     Hcl(TRUE, TRUE, B)}

OneInstance(instance) == QueryResult(<< <<instance>> >>)

\* The answers of the provider the concurrent specification draws from: one
\* for each way the checks of lines 133-172 end.
QueryResults ==
    {QueryError,
     QueryResult(<< >>),
     OneInstance(Instance(<<NetworkInterface(0, 0)>>, <<BlockDeviceMapping(A, 60000)>>, A)),
     OneInstance(Instance(<<NetworkInterface(1, 0)>>, << >>, A)),
     OneInstance(Instance(<<NetworkInterface(0, 0)>>, <<BlockDeviceMapping(B, 0)>>, A)),
     OneInstance(Instance(<<NetworkInterface(0, 0)>>, <<BlockDeviceMapping(A, 61000)>>, A))}

\* ------------------------------------------------------------ behaviours
Next ==
    \/ \E c \in Callers : AttestBegin(c, AttestRequests)
    \/ \E c \in Callers : AttestLock(c)
    \/ \E c \in Callers : AttestVerify(c)
    \/ \E c \in Callers : AttestDescribe(c)
    \/ \E c \in Callers : AttestDescribeReturn(c, QueryResults)
    \/ \E c \in Callers : AttestRespond(c)
    \/ \E c \in Callers : ConfigureBegin(c, Configurations)
    \/ \E c \in Callers : ConfigureLock(c)
    \/ \E c \in Callers : ConfigureSetTrustDomain(c)
    \/ \E c \in Callers : ConfigureSetPublicKey(c)
    \/ \E c \in Callers : Finish(c)

Spec == Init /\ [][Next]_vars

\* ------------------------------------ one caller, every provider answer
SeqsUpTo(S, n) == UNION {[1..k -> S] : k \in 0..n}

DeviceIndexes == 0..1
NetworkInterfaces ==
    {NetworkInterface(i, t) : i \in DeviceIndexes, t \in AttachTimes}
BlockDeviceMappings ==
    {BlockDeviceMapping(n, t) : n \in DeviceNames, t \in AttachTimes}

\* The instances within the bounds whose root device is `root`.
InstancesWithRoot(root) ==
    {Instance(ifaces, mappings, root) :
        ifaces \in SeqsUpTo(NetworkInterfaces, MaxInterfaces),
        mappings \in SeqsUpTo(BlockDeviceMappings, MaxMappings)}

\* Every answer of the provider within the bounds: an error, no reservation,
\* a reservation without instances, or one instance with that root device.
AllQueryResults(root) ==
    {QueryError, QueryResult(<< >>), QueryResult(<< << >> >>)}
      \cup {OneInstance(instance) : instance \in InstancesWithRoot(root)}

VerifiableRequests ==
    {AttestRequest(Payload(DocumentA, RawSig(TRUE, "aws", DocumentA)), FALSE)}

\* A single caller configures the plugin and attests a verifiable document
\* against every answer of the provider.
NextProvenance ==
    \/ AttestBegin(1, VerifiableRequests)
    \/ AttestLock(1)
    \/ AttestVerify(1)
    \/ AttestDescribe(1)
    \/ AttestDescribeReturn(1, AllQueryResults(A))
    \/ AttestRespond(1)
    \/ ConfigureBegin(1, {Hcl(TRUE, TRUE, A)})
    \/ ConfigureLock(1)
    \/ ConfigureSetTrustDomain(1)
    \/ ConfigureSetPublicKey(1)
    \/ Finish(1)

SpecProvenance == Init /\ [][NextProvenance]_vars

\* =================================================================== claims
\* The denial kind of the specification that each step's error stands for.
Kind(err) ==
    CASE err \in {StepUnmarshalData, StepUnmarshalIID} -> "MalformedPayload"
      [] err = StepValidateIID -> "ReplayDetected"
      [] err \in {StepBase64, StepVerify} -> "SignatureInvalid"
      [] err = StepQuery -> "ProviderQueryFailed"
      [] err = StepDeviceIndex -> "UnexpectedTopology"
      [] err = StepRootDevice -> "RootDeviceNotFound"
      [] err = StepDisparity -> "AttachTimeDisparity"
      [] OTHER -> "none"

AttestReturned(c) == pc[c] = "done" /\ req[c].op = "Attest"
ConfigureReturned(c) == pc[c] = "done" /\ req[c].op = "Configure"

\* The payload and the document of the request decode.
Decodes(request) == request.data.json /\ request.data.document.json

\* The signature is well-formed base64 of AWS's signature over the very
\* document of the payload.
SignedByAws(request) ==
    /\ request.data.signature.b64
    /\ request.data.signature.by = "aws"
    /\ request.data.signature.of = request.data.document

\* The provider returned at least one instance, and which.
HasInstance(result) ==
    /\ ~result.err
    /\ Len(result.Reservations) >= 1
    /\ Len(result.Reservations[1]) >= 1
TheInstance(result) == result.Reservations[1][1]

FirstInterfaceIsDeviceZero(instance) ==
    /\ Len(instance.NetworkInterfaces) >= 1
    /\ instance.NetworkInterfaces[1].DeviceIndex = 0

RootMappings(instance) ==
    {i \in DOMAIN instance.BlockDeviceMappings :
        instance.BlockDeviceMappings[i].DeviceName = instance.RootDeviceName}

\* The first mapping named RootDeviceName was attached within 60 whole
\* seconds of the first network interface.
WithinSixtySeconds(instance) ==
    \E i \in RootMappings(instance) :
        /\ \A j \in RootMappings(instance) : i <= j
        /\ LET a == instance.NetworkInterfaces[1].AttachTime \div 1000
               b == instance.BlockDeviceMappings[i].AttachTime \div 1000
           IN  a - b <= 60 /\ b - a <= 60

EveryStep ==
    <<"unmarshalData", "unmarshalIID", "replay", "sha256", "base64", "lock",
      "verify", "describe", "provenance", "spiffeID", "unlock">>

Executed(c, step) == \E i \in DOMAIN trace[c] : trace[c][i] = step

\* C1: an Attest call returns valid=true only if, in that call, the payload
\* and the document decoded, attestedBefore was false, the signature over
\* the raw document verified against the configured public key, the provider
\* returned an instance whose first interface has deviceIndex 0 and which
\* has a mapping named rootDeviceName attached within 60 seconds of that
\* interface; and every step ran, in order.
C1_ValidOnlyIfEveryCheckPassed ==
    \A c \in Callers :
        (AttestReturned(c) /\ resp[c].valid) =>
            /\ Decodes(req[c])
            /\ ~req[c].attestedBefore
            /\ SignedByAws(req[c])
            /\ loc[c].pub = awsCaCertPEMPublicKey
            /\ loc[c].query.issued
            /\ HasInstance(loc[c].result)
            /\ FirstInterfaceIsDeviceZero(TheInstance(loc[c].result))
            /\ RootMappings(TheInstance(loc[c].result)) # {}
            /\ WithinSixtySeconds(TheInstance(loc[c].result))
            /\ trace[c] = EveryStep

\* An Attest call has returned valid=true.
C1_Witness == \E c \in Callers : AttestReturned(c) /\ resp[c].valid

\* C3: an Attest call with attestedBefore=true never hashes the document,
\* decodes or verifies the signature, takes the lock or queries the
\* provider, and returns valid=false whether or not the signature is good.
C3_ReplayFailsBeforeAnyCryptography ==
    \A c \in Callers :
        (req[c].op = "Attest" /\ req[c].attestedBefore) =>
            /\ \A step \in {"sha256", "base64", "lock", "verify", "describe",
                              "provenance", "spiffeID"} : ~Executed(c, step)
            /\ pc[c] \in {"done"}
            /\ ~resp[c].valid
            /\ mtx # LockedBy(c)
            /\ ~loc[c].query.issued

\* A configured plugin has denied, as a replay, a document whose signature
\* would verify.
C3_Witness ==
    \E c \in Callers :
        /\ AttestReturned(c)
        /\ req[c].attestedBefore
        /\ Decodes(req[c]) /\ SignedByAws(req[c])
        /\ awsCaCertPublicKey = awsCaCertPEMPublicKey
        /\ resp[c].err = StepValidateIID

\* C4: a decodable, non-replayed payload whose signature is not base64, or
\* does not verify against the configured public key, is denied as
\* SignatureInvalid.
C4_BadSignatureIsDenied ==
    \A c \in Callers :
        ( /\ AttestReturned(c)
          /\ Decodes(req[c])
          /\ ~req[c].attestedBefore
          /\ \/ ~req[c].data.signature.b64
             \/ loc[c].pub # Nil /\ ~SignedByAws(req[c]) ) =>
            /\ ~resp[c].valid
            /\ Kind(resp[c].err) = "SignatureInvalid"
            /\ ~loc[c].query.issued

\* Both ways have happened: a signature that is not base64, and a base64
\* signature over other bytes checked against the configured key.
C4_Witness ==
    /\ \E c \in Callers :
          /\ AttestReturned(c)
          /\ ~req[c].data.signature.b64
          /\ resp[c].err = StepBase64
    /\ \E c \in Callers :
          /\ AttestReturned(c)
          /\ req[c].data.signature.by = "aws"
          /\ req[c].data.signature.of # req[c].data.document
          /\ loc[c].pub = awsCaCertPEMPublicKey
          /\ resp[c].err = StepVerify


\* The identity of the specification, character by character:
\* spiffe://<trustDomain>/spire/agent/iid_attestor/<accountId>/<instanceId>
CanonicalIdentity(td, accountId, instanceId) ==
    <<"spiffe", ":", "/", "/">> \o td
      \o <<"/", "spire", "/", "agent", "/", "iid_attestor", "/">>
      \o accountId \o <<"/">> \o instanceId

\* C2: after a successful Configure, a decodable payload with a signature
\* that verifies, attestedBefore=false, and a descriptor that passes the
\* topology, root-device and disparity checks yields valid=true, no error,
\* and exactly spiffe://<trustDomain>/spire/agent/iid_attestor/<accountId>/<instanceId>.
C2_HappyPathIdentity ==
    \A c \in Callers :
        ( /\ AttestReturned(c)
          /\ Decodes(req[c])
          /\ SignedByAws(req[c])
          /\ ~req[c].attestedBefore
          /\ loc[c].pub = awsCaCertPEMPublicKey
          /\ HasInstance(loc[c].result)
          /\ FirstInterfaceIsDeviceZero(TheInstance(loc[c].result))
          /\ WithinSixtySeconds(TheInstance(loc[c].result)) ) =>
            /\ resp[c].valid
            /\ resp[c].err = NoError
            /\ resp[c].id = CanonicalIdentity(loc[c].trustDomain,
                                              req[c].data.document.accountId,
                                              req[c].data.document.instanceId)

\* C5: every Attest call that derives an identity read the public key and
\* the trust domain of one and the same Configure call: the anchor was not
\* half written when it read the key, and nothing was assigned to the anchor
\* between that read and the read of the trust domain.
C5_AnchorReadWhole ==
    \A c \in Callers :
        (req[c].op = "Attest" /\ pc[c] \in {"describe", "await", "respond", "done"}) =>
            anchorIntact[c]

\* An Attest call returned an identity while a Configure call with another
\* trust domain was waiting for the lock.
C5_Witness ==
    \E c, d \in Callers :
        /\ AttestReturned(c) /\ resp[c].valid
        /\ req[d].op = "Configure" /\ pc[d] = "cfgLock"
        /\ req[d].configuration.trust_domain # loc[c].trustDomain

\* C6 as stated: an Attest call blocked in the provider query does not hold
\* the lock, and a Configure call or another Attest call waiting for the lock
\* can take it meanwhile.
C6_LockFreeDuringQuery ==
    \A c \in Callers :
        pc[c] = "await" =>
            /\ mtx # LockedBy(c)
            /\ \A d \in Callers :
                 /\ pc[d] = "cfgLock" => ENABLED ConfigureLock(d)
                 /\ pc[d] = "lock" => ENABLED AttestLock(d)

\* C6 as amended: from signature verification to its return, the provider
\* round trip included, an Attest call holds the lock, and meanwhile no
\* Configure call and no other Attest call can take it; a call that has
\* returned does not hold it.
C6_LockHeldUntilReturn ==
    \A c \in Callers :
        /\ (req[c].op = "Attest" /\ pc[c] \in {"verify", "describe", "await", "respond"}) =>
              /\ mtx = LockedBy(c)
              /\ \A d \in Callers :
                   ~ENABLED ConfigureLock(d) /\ ~ENABLED AttestLock(d)
        /\ pc[c] = "done" => mtx # LockedBy(c)

\* An Attest call is blocked in the provider query while a Configure call
\* waits for the lock.
C6_Witness ==
    \E c, d \in Callers :
        /\ pc[c] = "await"
        /\ req[d].op = "Configure" /\ pc[d] = "cfgLock"

\* C7: the step in which Configure returns an error leaves the trust domain
\* and the public key as they were, and that call assigned neither.
C7_FailedConfigureWritesNothing ==
    [][ \A c \in Callers :
          (pc[c] # "done" /\ pc'[c] = "done" /\ req'[c].op = "Configure"
             /\ resp'[c].err # NoError) =>
              /\ trustDomain' = trustDomain
              /\ awsCaCertPublicKey' = awsCaCertPublicKey
              /\ \A i \in DOMAIN trace'[c] :
                   trace'[c][i] \notin {"lock", "setTrustDomain", "setPublicKey"} ]_vars

\* A Configure call has failed on a plugin that holds an anchor with a
\* non-empty trust domain.
C7_Witness ==
    \E c \in Callers :
        /\ ConfigureReturned(c)
        /\ resp[c].err \in {ErrParseConfig, ErrDecodeConfig}
        /\ trustDomain # EmptyString
        /\ awsCaCertPublicKey = awsCaCertPEMPublicKey

\* The call reached the disparity check: the first interface has deviceIndex
\* 0 and a mapping is named rootDeviceName.
ReachedDisparity(c) ==
    /\ AttestReturned(c)
    /\ HasInstance(loc[c].result)
    /\ FirstInterfaceIsDeviceZero(TheInstance(loc[c].result))
    /\ RootMappings(TheInstance(loc[c].result)) # {}

FirstRootMapping(instance) ==
    CHOOSE i \in RootMappings(instance) : \A j \in RootMappings(instance) : i <= j

\* The attach times of the first interface (a) and of the root device (b),
\* in milliseconds.
IfaceTime(c) == TheInstance(loc[c].result).NetworkInterfaces[1].AttachTime
RootTime(c) ==
    TheInstance(loc[c].result).BlockDeviceMappings[
        FirstRootMapping(TheInstance(loc[c].result))].AttachTime

\* C8: for whole-second attach times a and b, in either order, the call is
\* valid iff |a - b| <= 60 seconds, and is denied as AttachTimeDisparity
\* otherwise.
C8_DisparityThreshold ==
    \A c \in Callers :
        ( /\ ReachedDisparity(c)
          /\ IfaceTime(c) % 1000 = 0
          /\ RootTime(c) % 1000 = 0 ) =>
            LET a == IfaceTime(c)
                b == RootTime(c)
                within == a - b <= 60 * 1000 /\ b - a <= 60 * 1000
            IN  /\ resp[c].valid <=> within
                /\ ~within => Kind(resp[c].err) = "AttachTimeDisparity"

\* Differences of 0, of exactly 60 (in both orders) and of 61 seconds (in
\* both orders) are all drawn; a difference of 61 seconds has been denied.
C8_Witness ==
    /\ \A d \in {0, 60000, -60000, 61000, -61000} :
          \E a, b \in AttachTimes : a % 1000 = 0 /\ b % 1000 = 0 /\ a - b = d
    /\ \E c \in Callers :
          /\ ReachedDisparity(c)
          /\ RootTime(c) - IfaceTime(c) = 61000
          /\ resp[c].err = StepDisparity

\* C9: the topology check passes iff the interface at position 0 has
\* deviceIndex 0, whatever the other interfaces are; otherwise the call is
\* denied as UnexpectedTopology.
C9_TopologyLooksAtFirstInterface ==
    \A c \in Callers :
        ( /\ AttestReturned(c)
          /\ HasInstance(loc[c].result)
          /\ Len(TheInstance(loc[c].result).NetworkInterfaces) >= 1 ) =>
            LET first == TheInstance(loc[c].result).NetworkInterfaces[1]
            IN  /\ first.DeviceIndex # 0 =>
                     ~resp[c].valid /\ Kind(resp[c].err) = "UnexpectedTopology"
                /\ first.DeviceIndex = 0 =>
                     Kind(resp[c].err) # "UnexpectedTopology"

\* A descriptor whose first interface has deviceIndex 0 and whose second has
\* deviceIndex 1 was attested.
C9_Witness ==
    \E c \in Callers :
        /\ AttestReturned(c) /\ resp[c].valid
        /\ Len(TheInstance(loc[c].result).NetworkInterfaces) >= 2
        /\ TheInstance(loc[c].result).NetworkInterfaces[2].DeviceIndex # 0

\* C10: once the topology check has passed, the call is denied as
\* RootDeviceNotFound iff no mapping is named rootDeviceName, however many
\* mappings there are.
C10_RootDeviceLookup ==
    \A c \in Callers :
        ( /\ AttestReturned(c)
          /\ HasInstance(loc[c].result)
          /\ FirstInterfaceIsDeviceZero(TheInstance(loc[c].result)) ) =>
            LET instance == TheInstance(loc[c].result)
                found == \E i \in DOMAIN instance.BlockDeviceMappings :
                            instance.BlockDeviceMappings[i].DeviceName
                                = instance.RootDeviceName
            IN  /\ ~found => ~resp[c].valid /\ Kind(resp[c].err) = "RootDeviceNotFound"
                /\ found => Kind(resp[c].err) # "RootDeviceNotFound"

\* A descriptor with two mappings, neither of them the root device, was
\* denied as RootDeviceNotFound.
C10_Witness ==
    \E c \in Callers :
        /\ AttestReturned(c)
        /\ HasInstance(loc[c].result)
        /\ Len(TheInstance(loc[c].result).BlockDeviceMappings) = 2
        /\ resp[c].err = StepRootDevice

\* C11: once the provider has answered with an error, with no reservation
\* or with a reservation that holds no instance, the Attest call returns
\* valid=false with ProviderQueryFailed: it neither crashes nor attests.
C11_QueryFailureIsDenied ==
    \A c \in Callers :
        ( /\ req[c].op = "Attest"
          /\ Executed(c, "provenance")
          /\ (loc[c].result.err \/ ~HasInstance(loc[c].result)) ) =>
            /\ pc[c] = "done"
            /\ ~resp[c].valid
            /\ Kind(resp[c].err) = "ProviderQueryFailed"

\* ------------------------------------------- one caller, every identity
\* The longest account or instance id of the identity specification.
MaxIdLen == 2

\* The ids are the strings of at most MaxIdLen characters over a letter,
\* "/" and ".": among them "", ".", "..", "a/", "/a" and "./".
IdChars == {"a", Slash, Dot}
IdStrings == SeqsUpTo(IdChars, MaxIdLen)

IdentityTrustDomains == {EmptyString, A, <<"spire">>, <<Slash>>}

\* Correctly signed documents with every account and instance id.
IdentityRequests ==
    {AttestRequest(Payload(RawDoc(acct, inst, A),
                           RawSig(TRUE, "aws", RawDoc(acct, inst, A))), FALSE) :
        acct \in IdStrings, inst \in IdStrings}

IdentityResults ==
    {OneInstance(Instance(<<NetworkInterface(0, 0)>>, <<BlockDeviceMapping(A, 0)>>, A))}

\* A single caller configures every trust domain and attests every document
\* against an instance that passes the provenance checks.
NextIdentity ==
    \/ AttestBegin(1, IdentityRequests)
    \/ AttestLock(1)
    \/ AttestVerify(1)
    \/ AttestDescribe(1)
    \/ AttestDescribeReturn(1, IdentityResults)
    \/ AttestRespond(1)
    \/ ConfigureBegin(1, {Hcl(TRUE, TRUE, td) : td \in IdentityTrustDomains})
    \/ ConfigureLock(1)
    \/ ConfigureSetTrustDomain(1)
    \/ ConfigureSetPublicKey(1)
    \/ Finish(1)

SpecIdentity == Init /\ [][NextIdentity]_vars

IdentityTriples == IdentityTrustDomains \X IdStrings \X IdStrings

\* An id that is one path segment: not empty, without "/", not "." or "..".
WellFormedId(s) ==
    /\ s # EmptyString
    /\ s # <<Dot>>
    /\ s # DotDot
    /\ \A i \in 1..Len(s) : s[i] # Slash

WellFormedTriples ==
    {t \in IdentityTriples : WellFormedId(t[2]) /\ WellFormedId(t[3])}

\* The triple an identity was derived from: the trust domain the call read
\* and the account and instance id of its document.
DerivedFrom(c) ==
    <<loc[c].trustDomain, req[c].data.document.accountId,
      req[c].data.document.instanceId>>

Derived(c) == AttestReturned(c) /\ resp[c].valid

\* C12 (as stated): the identity is a function of (trustDomain, accountId,
\* instanceId) and no other triple, over ids that may be empty or hold "/"
\* or "." segments, derives the identity string a call returned.
C12_IdentityInjective ==
    \A c \in Callers :
        Derived(c) =>
            \A t \in IdentityTriples :
                t # DerivedFrom(c) => spiffeID(t[1], t[2], t[3]) # resp[c].id

\* C12 (amended): over triples whose account and instance id are each one
\* path segment (not empty, without "/", not "." or ".."), whatever the
\* trust domain, no other such triple derives the identity string a call
\* returned for its own triple.
C12_InjectiveOverWellFormedIds ==
    \A c \in Callers :
        (Derived(c) /\ DerivedFrom(c) \in WellFormedTriples) =>
            /\ resp[c].id = spiffeID(DerivedFrom(c)[1], DerivedFrom(c)[2],
                                     DerivedFrom(c)[3])
            /\ \A t \in WellFormedTriples :
                   t # DerivedFrom(c) => spiffeID(t[1], t[2], t[3]) # resp[c].id

\* An identity was returned for the ids "a." and ".a" under the empty trust
\* domain, which other well-formed triples could be confused with.
C12_Witness ==
    \E c \in Callers :
        /\ Derived(c)
        /\ DerivedFrom(c) = <<EmptyString, <<"a", Dot>>, <<Dot, "a">> >>

\* The check at which a returned call stopped: the last entry of its log
\* that is not the deferred unlock.
LastCheck(c) ==
    IF trace[c][Len(trace[c])] = "unlock"
    THEN trace[c][Len(trace[c]) - 1]
    ELSE trace[c][Len(trace[c])]

\* The steps an error may name when the call stopped at `check`.
StepsOf(check) ==
    CASE check = "unmarshalData" -> {StepUnmarshalData}
      [] check = "unmarshalIID" -> {StepUnmarshalIID}
      [] check = "replay" -> {StepValidateIID}
      [] check = "base64" -> {StepBase64}
      [] check = "verify" -> {StepVerify}
      [] check = "provenance" ->
             {StepQuery, StepDeviceIndex, StepRootDevice, StepDisparity}
      [] OTHER -> {}

\* C13: every Attest call that returns, returns either valid=true with a
\* non-empty identity and no error, or valid=false with an empty identity
\* and an error naming the step at which the call stopped; never a mix.
C13_AllOrNothing ==
    \A c \in Callers :
        AttestReturned(c) =>
            \/ /\ resp[c].valid
               /\ resp[c].id # EmptyString
               /\ resp[c].err = NoError
               /\ LastCheck(c) = "spiffeID"
            \/ /\ ~resp[c].valid
               /\ resp[c].id = EmptyString
               /\ resp[c].err \in StepsOf(LastCheck(c))

\* One call has returned an identity and another a denial.
C13_Witness ==
    \E c, d \in Callers :
        /\ AttestReturned(c) /\ resp[c].valid
        /\ AttestReturned(d) /\ ~resp[d].valid /\ resp[d].err = StepDisparity

\* C14: every DescribeInstances call is made in the region of the region
\* claim and for exactly the instance id of the instanceId claim of the
\* document whose signature verified in that same Attest call, and for
\* nothing else.
C14_QueryScopedToVerifiedDocument ==
    \A c \in Callers :
        loc[c].query.issued =>
            /\ req[c].op = "Attest"
            /\ Decodes(req[c])
            /\ SignedByAws(req[c])
            /\ loc[c].pub = awsCaCertPEMPublicKey
            /\ Executed(c, "verify")
            /\ loc[c].query.Region = req[c].data.document.region
            /\ loc[c].query.InstanceIds = <<req[c].data.document.instanceId>>

\* Two calls with different documents have each sent their query.
C14_Witness ==
    \E c, d \in Callers :
        /\ loc[c].query.issued /\ req[c].data.document = DocumentA
        /\ loc[d].query.issued /\ req[d].data.document = DocumentB
        /\ pc[d] = "await"

\* C15: at the return of every successful Configure call with trust
\* domain d the anchor is exactly (the public key of the embedded root
\* certificate, d), whatever it was before; so configuring d again when the
\* anchor is already that pair leaves it the same.
C15_ConfigureReplacesAnchor ==
    [][\A c \in Callers :
          ( /\ pc[c] # "done"
            /\ pc'[c] = "done"
            /\ req'[c].op = "Configure"
            /\ resp'[c].err = NoError ) =>
              /\ trustDomain' = req'[c].configuration.trust_domain
              /\ awsCaCertPublicKey' = awsCaCertPEMPublicKey]_vars

\* Two Configure calls with different trust domains have succeeded, and the
\* anchor holds the trust domain of the one that wrote last.
C15_Witness ==
    \E c, d \in Callers :
        /\ ConfigureReturned(c) /\ resp[c].err = NoError
        /\ ConfigureReturned(d) /\ resp[d].err = NoError
        /\ req[c].configuration.trust_domain = A
        /\ req[d].configuration.trust_domain = B
        /\ trustDomain = A
        /\ awsCaCertPublicKey = awsCaCertPEMPublicKey

\* The first check, in the order payload, document, replay, signature,
\* provider query, topology, root device, disparity, that the inputs of a
\* returned call fail; NoError when they fail none.
FirstFailure(c) ==
    IF ~req[c].data.json THEN StepUnmarshalData
    ELSE IF ~req[c].data.document.json THEN StepUnmarshalIID
    ELSE IF req[c].attestedBefore THEN StepValidateIID
    ELSE IF ~req[c].data.signature.b64 THEN StepBase64
    ELSE IF ~SignedByAws(req[c]) THEN StepVerify
    ELSE IF loc[c].result.err THEN StepQuery
    ELSE IF ~FirstInterfaceIsDeviceZero(TheInstance(loc[c].result)) THEN StepDeviceIndex
    ELSE IF RootMappings(TheInstance(loc[c].result)) = {} THEN StepRootDevice
    ELSE IF ~WithinSixtySeconds(TheInstance(loc[c].result)) THEN StepDisparity
    ELSE NoError

\* C16: the denial an Attest call returns is that of the first check its
\* inputs fail, in the order MalformedPayload (payload, then document),
\* ReplayDetected, SignatureInvalid, ProviderQueryFailed,
\* UnexpectedTopology, RootDeviceNotFound, AttachTimeDisparity; a call whose
\* inputs fail no check is not denied.
C16_FirstFailureWins ==
    \A c \in Callers :
        AttestReturned(c) =>
            /\ resp[c].err = FirstFailure(c)
            /\ resp[c].valid <=> FirstFailure(c) = NoError

\* The two examples of the claim: an undecodable payload with
\* attestedBefore=true was denied as MalformedPayload, and an instance with a
\* non-zero first deviceIndex and no root mapping as UnexpectedTopology.
C16_Witness ==
    \E c, d \in Callers :
        /\ AttestReturned(c)
        /\ ~req[c].data.json /\ req[c].attestedBefore
        /\ Kind(resp[c].err) = "MalformedPayload"
        /\ AttestReturned(d)
        /\ HasInstance(loc[d].result)
        /\ ~FirstInterfaceIsDeviceZero(TheInstance(loc[d].result))
        /\ RootMappings(TheInstance(loc[d].result)) = {}
        /\ Kind(resp[d].err) = "UnexpectedTopology"

\* How many times a step is in the log of a call, and where.
Occurrences(c, step) == {i \in DOMAIN trace[c] : trace[c][i] = step}

\* C17: an Attest call issues DescribeInstances at most once, and only
\* after its own signature verification has succeeded; a call denied as
\* MalformedPayload, ReplayDetected or SignatureInvalid has issued none.
C17_QueryOnlyAfterVerification ==
    \A c \in Callers :
        req[c].op = "Attest" =>
            /\ Cardinality(Occurrences(c, "describe")) <= 1
            /\ loc[c].query.issued <=> Executed(c, "describe")
            /\ \A i \in Occurrences(c, "describe") :
                   /\ \E j \in Occurrences(c, "verify") : j < i
                   /\ SignedByAws(req[c])
                   /\ loc[c].pub = awsCaCertPEMPublicKey
            /\ ( /\ AttestReturned(c)
                 /\ Kind(resp[c].err) \in
                        {"MalformedPayload", "ReplayDetected", "SignatureInvalid"} ) =>
                   ~loc[c].query.issued

\* A call whose signature did not verify has returned without a query
\* while another call, verified, waits for the answer to its own.
C17_Witness ==
    \E c, d \in Callers :
        /\ AttestReturned(c)
        /\ resp[c].err = StepVerify
        /\ ~loc[c].query.issued
        /\ pc[d] = "await"
        /\ loc[d].query.issued

\* ------------------------------------ one caller, sub-second attach times
\* Attach times in milliseconds at both ends of a second, around 0, 60 and
\* 61 seconds.
DisparityTimes == {0, 100, 900, 1000, 59900, 60000, 60100, 60900, 61000, 61900}

\* Instances that reach the disparity check with every pair of these times.
DisparityResults ==
    {OneInstance(Instance(<<NetworkInterface(0, a)>>,
                          <<BlockDeviceMapping(A, b)>>, A)) :
        a \in DisparityTimes, b \in DisparityTimes}

NextDisparity ==
    \/ AttestBegin(1, VerifiableRequests)
    \/ AttestLock(1)
    \/ AttestVerify(1)
    \/ AttestDescribe(1)
    \/ AttestDescribeReturn(1, DisparityResults)
    \/ AttestRespond(1)
    \/ ConfigureBegin(1, {Hcl(TRUE, TRUE, A)})
    \/ ConfigureLock(1)
    \/ ConfigureSetTrustDomain(1)
    \/ ConfigureSetPublicKey(1)
    \/ Finish(1)

SpecDisparity == Init /\ [][NextDisparity]_vars

\* The true difference of the two attach times of a call, in milliseconds.
TrueDifference(c) ==
    IF IfaceTime(c) >= RootTime(c) THEN IfaceTime(c) - RootTime(c)
                                   ELSE RootTime(c) - IfaceTime(c)

\* C18 (as stated): the value compared against 60 is the true difference in
\* whole seconds, so a call passes the disparity check iff the true
\* difference of its two attach times is less than 61 seconds, wherever the
\* two times fall within their seconds.
C18_TrueDifferenceDecides ==
    \A c \in Callers :
        ReachedDisparity(c) =>
            (resp[c].valid <=> TrueDifference(c) < 61 * 1000)

\* C18 (amended): the value compared against 60 is the absolute difference
\* of the two attach times each truncated to whole seconds.  Every pair
\* whose true difference is at most 60 seconds passes, every pair whose true
\* difference is 61 seconds or more is denied as AttachTimeDisparity, and
\* in between the outcome is the one the truncated seconds give.
C18_TruncatedTimestampsDecide ==
    \A c \in Callers :
        ReachedDisparity(c) =>
            LET a == IfaceTime(c) \div 1000
                b == RootTime(c) \div 1000
            IN  /\ resp[c].valid <=> (a - b <= 60 /\ b - a <= 60)
                /\ ~resp[c].valid => Kind(resp[c].err) = "AttachTimeDisparity"
                /\ TrueDifference(c) <= 60 * 1000 => resp[c].valid
                /\ TrueDifference(c) >= 61 * 1000 => ~resp[c].valid

\* The same true difference of 60.9 seconds has both outcomes among the
\* times drawn; the call at hand, 0.9 s against 61.0 s, was denied with a
\* true difference of 60.1 seconds.
C18_Witness ==
    /\ \E a, b \in DisparityTimes :
          b - a = 60900 /\ ~DisparityTooLarge(a, b)
    /\ \E a, b \in DisparityTimes :
          b - a = 60900 /\ DisparityTooLarge(a, b)
    /\ \E c \in Callers :
          /\ ReachedDisparity(c)
          /\ IfaceTime(c) = 900
          /\ RootTime(c) = 61000
          /\ resp[c].err = StepDisparity

\* No Configure call has succeeded yet: line 220, the last statement of a
\* successful Configure, is the only assignment to the key.
Unconfigured == awsCaCertPublicKey = Nil

\* C19: while no Configure call has succeeded, no Attest call has returned
\* valid=true or got past the verification, whatever Configure calls are in
\* flight; and a call that returned valid=true verified against the key a
\* Configure call stored.
C19_UnconfiguredNeverAttests ==
    /\ Unconfigured =>
          \A c \in Callers :
              req[c].op = "Attest" =>
                  /\ ~resp[c].valid
                  /\ pc[c] \notin {"describe", "await", "respond"}
    /\ \A c \in Callers :
          (AttestReturned(c) /\ resp[c].valid) =>
              loc[c].pub = awsCaCertPEMPublicKey

\* On an unconfigured plugin an Attest call has reached the verification
\* while a Configure call that has written nothing yet waits for the lock.
C19_Witness ==
    /\ Unconfigured
    /\ \E c, d \in Callers :
          /\ req[c].op = "Attest"
          /\ Executed(c, "verify")
          /\ req[d].op = "Configure"
          /\ pc[d] = "cfgLock"

\* A call that has been made and has neither returned nor panicked.
InFlight(c) == pc[c] \notin {"idle", "done", "panicked"}

\* The half of C20 about the lock alone: the deferred unlock of lines 114
\* and 217 has run by the time a call has returned or panicked.
LockNeverHeldByFinishedCall ==
    \A c \in Callers : ~InFlight(c) => c \notin mtx

\* The next step of a call in flight, by its position, can be taken.
CanStep(c) ==
    \/ pc[c] = "lock" /\ ENABLED AttestLock(c)
    \/ pc[c] = "verify" /\ ENABLED AttestVerify(c)
    \/ pc[c] = "describe" /\ ENABLED AttestDescribe(c)
    \/ pc[c] = "await" /\ ENABLED AttestDescribeReturn(c, QueryResults)
    \/ pc[c] = "respond" /\ ~crashed    \* all of AttestRespond's guard
    \/ pc[c] = "cfgLock" /\ ENABLED ConfigureLock(c)
    \/ pc[c] = "cfgTrustDomain" /\ ENABLED ConfigureSetTrustDomain(c)
    \/ pc[c] = "cfgPublicKey" /\ ENABLED ConfigureSetPublicKey(c)

\* A call in flight is not stuck: it can take its next step, or it waits
\* for the lock and the call holding the lock can take its next step.
CanProgress(c) == CanStep(c) \/ \E d \in mtx : CanStep(d)

\* While the process is alive, no call in flight is stuck.
NoDeadlockWhileAlive ==
    \A c \in Callers : (InFlight(c) /\ ~crashed) => CanProgress(c)

\* C20: a call that has returned never holds the lock, and every Attest or
\* Configure call in flight goes on to complete: whenever a call is in
\* flight, it or the call it waits for can take a step (no call is left
\* waiting for ever).
C20_LockReleasedAndEveryCallCompletes ==
    \A c \in Callers :
        /\ ~InFlight(c) => c \notin mtx
        /\ InFlight(c) => CanProgress(c)

====
